---- MODULE Spec2Model ----
(***************************************************************************)
(* Model of the directory watcher that ingests gzip-compressed CSV files   *)
(* into Elasticsearch (src/main.go).                                       *)
(*                                                                         *)
(* Two goroutines are modelled: main (start-up, then blocked forever) and  *)
(* the event-handling goroutine (the select loop, processGzipFile and      *)
(* bulkInsertToElasticsearch, which it calls synchronously).  The watch    *)
(* facility, the file system and the datastore are the environment.        *)
(***************************************************************************)
EXTENDS Integers, Sequences, FiniteSets, TLC

\* ------------------------------------------------------------------ bounds
MaxEvents == 2      \* events the watch facility delivers in one run
MaxErrors == 1      \* errors the watch facility reports in one run
MaxCols   == 2      \* cells in a CSV record
MaxRows   == 2      \* data rows in a file / records in a batch

\* --------------------------------------------------------------- constants
Create == 1                      \* fsnotify.Create (bit 0 of Op)
Write  == 2                      \* fsnotify.Write  (bit 1 of Op)
Suffix == <<".", "g", "z">>      \* ".gz"
Index  == "twamp-data"
NoId   == <<>>                   \* a directive that names no document id

\* ------------------------------------------------------------ input sets
Ops      == {Create, Write, Create + Write}
Names    == { <<"a", ".", "g", "z">>, <<"g", "z">>, <<".", "g", "z", "x">> }
EventSet == [Name : Names, Op : Ops]

HeaderNames == {"h", "k"}
KeyOrder    == <<"h", "k">>      \* HeaderNames in byte order
Cells       == {"x", "y"}
Chan        == "<chan>"          \* a Go value encoding/json cannot marshal

SeqsUpTo(S, lo, hi) == UNION { [1..n -> S] : n \in lo..hi }

\* A file as the readers see it: whether it opens, whether it starts a gzip
\* stream, the CSV records that decode, and whether the stream breaks after
\* them (instead of ending).
FileOf(opens, gzip, recs, corrupt) ==
    [opens |-> opens, gzip |-> gzip, recs |-> recs, corrupt |-> corrupt]

AllFiles ==
    { FileOf(TRUE, TRUE, <<h>> \o rows, c) :
        h \in SeqsUpTo(HeaderNames, 1, MaxCols),
        rows \in SeqsUpTo(SeqsUpTo(Cells, 1, MaxCols), 0, MaxRows),
        c \in BOOLEAN }
    \cup { FileOf(FALSE, FALSE, <<>>, FALSE), FileOf(TRUE, FALSE, <<>>, FALSE),
           FileOf(TRUE, TRUE, <<>>, FALSE), FileOf(TRUE, TRUE, <<>>, TRUE) }

SampleFiles ==
    { FileOf(TRUE, TRUE, << <<"h", "k">>, <<"x", "y">>, <<"y", "x">> >>, FALSE),
      FileOf(TRUE, TRUE, << <<"h", "k">> >>, FALSE),
      FileOf(TRUE, TRUE, << <<"h", "k">>, <<"x", "y">>, <<"x">> >>, FALSE),
      FileOf(TRUE, TRUE, << <<"h", "k">>, <<"x", "y">> >>, TRUE),
      FileOf(FALSE, FALSE, <<>>, FALSE),
      FileOf(TRUE, FALSE, <<>>, FALSE),
      FileOf(TRUE, TRUE, <<>>, FALSE) }

NoFile == FileOf(FALSE, FALSE, <<>>, FALSE)

Bodies == { <<"{", "error", "}">>, <<"<", "html", ">">>, <<>> }

\* ------------------------------------------------------------------ state
VARIABLES
    mainPc, mainErr, es, watching,          \* main goroutine
    exit,                                   \* "running", "fatal" or "panic"
    hPc,                                    \* event-handling goroutine
    events, errors, eventsClosed, errorsClosed, nEvents, nErrors,
    event, file, headers, dataList, i, buf, res, ret,
    log, stdout, requests, store, nextId,
    ingests, oks, active, created           \* history

mainVars   == <<mainPc, mainErr, es, watching>>
chanVars   == <<events, errors, eventsClosed, errorsClosed, nEvents, nErrors>>
ingestVars == <<event, file, headers, dataList, i, buf, res, ret>>
storeVars  == <<requests, store, nextId>>
histVars   == <<ingests, oks, active, created>>
vars == <<mainVars, exit, hPc, chanVars, ingestVars, log, stdout, storeVars, histVars>>

NoEvent == [Name |-> <<>>, Op |-> 0]
NoRes == [status |-> "nil", body |-> <<>>]
Nil == [kind |-> "nil", detail |-> <<>>]
Err(kind, detail) == [kind |-> kind, detail |-> detail]
Entry(kind, n) == [kind |-> kind, n |-> n]

\* ------------------------------------------------------- pure operations

\* event.Op & fsnotify.Create
RECURSIVE BitAnd(_, _)
BitAnd(a, b) ==
    IF a = 0 \/ b = 0 THEN 0
    ELSE (a % 2) * (b % 2) + 2 * BitAnd(a \div 2, b \div 2)

HasPrefix(s, prefix) ==
    Len(s) >= Len(prefix) /\ SubSeq(s, 1, Len(prefix)) = prefix

\* strings.HasSuffix(s, suffix)
HasSuffix(s, suffix) ==
    Len(s) >= Len(suffix) /\ SubSeq(s, Len(s) - Len(suffix) + 1, Len(s)) = suffix

QualifiesAnyOp(ev) == HasSuffix(ev.Name, Suffix)

\* the condition of the if statement in the event case of the select
Qualifies(ev) ==
    BitAnd(ev.Op, Create) = Create /\ HasSuffix(ev.Name, Suffix)

\* reader.Read() for the header: the first record, or an error (io.EOF on an
\* empty stream, a read error on a broken one)
ReadHeader(f) ==
    IF f.recs = <<>> THEN [row |-> <<>>, err |-> IF f.corrupt THEN "read" ELSE "EOF"]
    ELSE [row |-> f.recs[1], err |-> "nil"]

RECURSIVE ReadAllLax(_, _, _, _)
ReadAllLax(f, fields, k, acc) ==
    IF k > Len(f.recs)
    THEN IF f.corrupt THEN [rows |-> <<>>, err |-> "read"]
         ELSE [rows |-> acc, err |-> "nil"]
    ELSE ReadAllLax(f, fields, k + 1, Append(acc, f.recs[k]))

\* reader.ReadAll() after the header was read: FieldsPerRecord is 0, so the
\* header fixed the field count; the first error discards every row read
RECURSIVE ReadAllFrom(_, _, _, _)
ReadAllFrom(f, fields, k, acc) ==
    IF k > Len(f.recs)
    THEN IF f.corrupt THEN [rows |-> <<>>, err |-> "read"]
         ELSE [rows |-> acc, err |-> "nil"]
    ELSE IF Len(f.recs[k]) # fields THEN [rows |-> <<>>, err |-> "fieldCount"]
    ELSE ReadAllFrom(f, fields, k + 1, Append(acc, f.recs[k]))

ReadAll(f) == ReadAllFrom(f, Len(f.recs[1]), 2, <<>>)

EmptyMap == [k \in {} |-> ""]

PutIfAbsent(m, k, v) ==
    [x \in DOMAIN m \cup {k} |-> IF x \in DOMAIN m THEN m[x] ELSE v]

\* dataMap[header] = row[j]
Put(m, k, v) ==
    [x \in DOMAIN m \cup {k} |-> IF x = k THEN v ELSE m[x]]

\* the inner loop over the headers; row[j] beyond the row's length panics
RECURSIVE MapRowFrom(_, _, _, _)
MapRowFrom(hs, row, j, m) ==
    IF j > Len(hs) THEN [panic |-> FALSE, map |-> m]
    ELSE IF j > Len(row) THEN [panic |-> TRUE, map |-> m]
    ELSE MapRowFrom(hs, row, j + 1, Put(m, hs[j], row[j]))

MapRow(hs, row) == MapRowFrom(hs, row, 1, EmptyMap)

PrependRecord(list, rec) == <<rec>> \o list

\* dataList = append(dataList, dataMap)
AppendRecord(list, rec) == Append(list, rec)

\* the outer loop over the rows
RECURSIVE MapRowsFrom(_, _, _, _)
MapRowsFrom(hs, rows, k, acc) ==
    IF k > Len(rows) THEN [panic |-> FALSE, list |-> acc]
    ELSE LET r == MapRow(hs, rows[k])
         IN  IF r.panic THEN [panic |-> TRUE, list |-> acc]
             ELSE MapRowsFrom(hs, rows, k + 1, AppendRecord(acc, r.map))

MapRows(hs, rows) == MapRowsFrom(hs, rows, 1, <<>>)

\* json.Marshal(dataMap): the keys in sorted order, each with its value; an
\* error when a value has no JSON encoding
Marshal(m) ==
    LET keys == SelectSeq(KeyOrder, LAMBDA k : k \in DOMAIN m)
    IN  IF \E k \in DOMAIN m : m[k] = Chan
        THEN [err |-> "marshal", data |-> <<>>]
        ELSE [err |-> "nil", data |-> [n \in 1..Len(keys) |-> <<keys[n], m[keys[n]]>>]]

MetaFixedId(index) == [op |-> "create", index |-> index, id |-> <<index>>]

\* { "create" : { "_index" : "%s" } }
Meta(index) == [op |-> "create", index |-> index, id |-> NoId]

\* json.NewDecoder(res.Body).Decode(&resBody) into a map
Decode(body) ==
    IF Len(body) >= 2 /\ body[1] = "{" /\ body[Len(body)] = "}"
    THEN [err |-> "nil", value |-> SubSeq(body, 2, Len(body) - 1)]
    ELSE [err |-> "decode", value |-> <<>>]

\* The datastore applying a bulk body: a create directive without an id
\* makes a new document under a fresh id; one with an id makes a document
\* unless that id exists.
RECURSIVE ApplyBulk(_, _, _, _)
ApplyBulk(body, k, docs, next) ==
    IF k > Len(body) THEN [docs |-> docs, next |-> next]
    ELSE LET meta == body[k]
         IN  IF meta.id = NoId
             THEN ApplyBulk(body, k + 2, docs \cup {<<next>>}, next + 1)
             ELSE ApplyBulk(body, k + 2, docs \cup {meta.id}, next)

alive == exit = "running"

Init ==
    /\ mainPc = "loadEnv" /\ mainErr = "nil" /\ es = "nil" /\ watching = FALSE
    /\ exit = "running"
    /\ hPc = "idle"
    /\ events = <<>> /\ errors = <<>>
    /\ eventsClosed = FALSE /\ errorsClosed = FALSE
    /\ nEvents = 0 /\ nErrors = 0
    /\ event = NoEvent /\ file = NoFile /\ headers = <<>> /\ dataList = <<>>
    /\ i = 0 /\ buf = <<>> /\ res = NoRes /\ ret = Nil
    /\ log = <<>> /\ stdout = <<>>
    /\ requests = <<>> /\ store = {} /\ nextId = 1
    /\ ingests = <<>> /\ oks = <<>> /\ active = 0 /\ created = <<>>

\* ---------------------------------------------------------- termination

FatalLogged == /\ log' = Append(log, Entry("fatal", 0))
               /\ UNCHANGED exit

\* log.Fatal: one log entry, then os.Exit(1) ends every goroutine
Fatal == /\ log' = Append(log, Entry("fatal", 0))
         /\ exit' = "fatal"

\* ------------------------------------------------------- main goroutine

\* godotenv.Load(".env")
LoadEnv ==
    /\ alive /\ mainPc = "loadEnv"
    /\ \/ /\ mainPc' = "newClient" /\ mainErr' = "nil"
          /\ UNCHANGED <<log, exit>>
       \/ /\ mainPc' = "exited" /\ mainErr' = "env"
          /\ Fatal
    /\ UNCHANGED <<es, watching, hPc, chanVars, ingestVars, stdout, storeVars, histVars>>

\* elasticsearch.NewClient(cfg): a failure is logged with log.Printf and
\* main goes on with a nil client
NewClient ==
    /\ alive /\ mainPc = "newClient"
    /\ mainPc' = "newWatcher"
    /\ \/ /\ es' = "client" /\ mainErr' = "nil"
          /\ UNCHANGED log
       \/ /\ es' = "nil" /\ mainErr' = "client"
          /\ log' = Append(log, Entry("clientError", 0))
    /\ UNCHANGED <<watching, exit, hPc, chanVars, ingestVars, stdout, storeVars, histVars>>

\* fsnotify.NewWatcher()
NewWatcher ==
    /\ alive /\ mainPc = "newWatcher"
    /\ \/ /\ mainPc' = "go" /\ mainErr' = "nil"
          /\ UNCHANGED <<log, exit>>
       \/ /\ mainPc' = "exited" /\ mainErr' = "watcher"
          /\ Fatal
    /\ UNCHANGED <<es, watching, hPc, chanVars, ingestVars, stdout, storeVars, histVars>>

\* go func() { for { select { ... } } }()
Go ==
    /\ alive /\ mainPc = "go"
    /\ mainPc' = "add"
    /\ hPc' = "select"
    /\ UNCHANGED <<mainErr, es, watching, exit, chanVars, ingestVars, log, stdout,
                   storeVars, histVars>>

AddOk ==
    /\ alive /\ mainPc = "add"
    /\ mainPc' = "block" /\ mainErr' = "nil" /\ watching' = TRUE
    /\ UNCHANGED <<es, exit, hPc, chanVars, ingestVars, log, stdout, storeVars, histVars>>

AddFailedLogged ==
    /\ alive /\ mainPc = "add"
    /\ mainPc' = "block" /\ mainErr' = "add"
    /\ log' = Append(log, Entry("addError", 0))
    /\ UNCHANGED <<es, watching, exit, hPc, chanVars, ingestVars, stdout, storeVars,
                   histVars>>

AddFailed ==
    /\ alive /\ mainPc = "add"
    /\ mainPc' = "exited" /\ mainErr' = "add"
    /\ Fatal
    /\ UNCHANGED <<es, watching, hPc, chanVars, ingestVars, stdout, storeVars, histVars>>

\* err = watcher.Add(directoryPath); then select {} blocks main for ever
Add == AddOk \/ AddFailed

\* ------------------------------------------------------- watch facility

WatcherExists == mainPc \in {"go", "add", "block"}

EndsInGz(n) ==
    Len(n) >= 3 /\ n[Len(n) - 2] = "." /\ n[Len(n) - 1] = "g" /\ n[Len(n)] = "z"

\* the events the dispatch is for: a creation of a file named *.gz
CreatedGz(ev) == ev.Op \in {Create, Create + Write} /\ EndsInGz(ev.Name)

\* the facility sends an event of the watched directory on watcher.Events;
\* created keeps the creations of *.gz files among them, in order
DeliverEvent ==
    /\ alive /\ watching /\ ~eventsClosed /\ nEvents < MaxEvents
    /\ \E ev \in EventSet :
           /\ events' = Append(events, ev)
           /\ created' = IF CreatedGz(ev) THEN Append(created, ev) ELSE created
    /\ nEvents' = nEvents + 1
    /\ UNCHANGED <<mainVars, exit, hPc, errors, eventsClosed, errorsClosed, nErrors,
                   ingestVars, log, stdout, storeVars, ingests, oks, active>>

\* the facility sends an error on watcher.Errors
DeliverError ==
    /\ alive /\ WatcherExists /\ ~errorsClosed /\ nErrors < MaxErrors
    /\ errors' = Append(errors, "error")
    /\ nErrors' = nErrors + 1
    /\ UNCHANGED <<mainVars, exit, hPc, events, eventsClosed, errorsClosed, nEvents,
                   ingestVars, log, stdout, storeVars, histVars>>

\* the facility closes watcher.Events
CloseEvents ==
    /\ alive /\ WatcherExists /\ ~eventsClosed
    /\ eventsClosed' = TRUE
    /\ UNCHANGED <<mainVars, exit, hPc, events, errors, errorsClosed, nEvents, nErrors,
                   ingestVars, log, stdout, storeVars, histVars>>

\* the facility closes watcher.Errors
CloseErrors ==
    /\ alive /\ WatcherExists /\ ~errorsClosed
    /\ errorsClosed' = TRUE
    /\ UNCHANGED <<mainVars, exit, hPc, events, errors, eventsClosed, nEvents, nErrors,
                   ingestVars, log, stdout, storeVars, histVars>>

\* ------------------------------------------------- the select loop

RecvEventAsync ==
    /\ alive /\ hPc \in {"select", "process", "marshal", "do"} /\ events # <<>>
    /\ LET ev == Head(events)
       IN  /\ events' = Tail(events)
           /\ event' = ev
           /\ IF Qualifies(ev)
              THEN /\ stdout' = Append(stdout, ev.Name)
                   /\ ingests' = Append(ingests, ev)
                   /\ active' = active + 1
                   /\ hPc' = "process"
              ELSE UNCHANGED <<stdout, ingests, active, hPc>>
    /\ UNCHANGED <<mainVars, exit, errors, eventsClosed, errorsClosed, nEvents, nErrors,
                   file, headers, dataList, i, buf, res, ret, log, storeVars, oks,
                   created>>

\* case event, ok := <-watcher.Events, ok true: a qualifying event is
\* announced on stdout and processGzipFile(es, event.Name) is called
RecvEvent ==
    /\ alive /\ hPc = "select" /\ events # <<>>
    /\ LET ev == Head(events)
       IN  /\ events' = Tail(events)
           /\ event' = ev
           /\ IF Qualifies(ev)
              THEN /\ stdout' = Append(stdout, ev.Name)
                   /\ ingests' = Append(ingests, ev)
                   /\ active' = active + 1
                   /\ hPc' = "process"
              ELSE UNCHANGED <<stdout, ingests, active, hPc>>
    /\ UNCHANGED <<mainVars, exit, errors, eventsClosed, errorsClosed, nEvents, nErrors,
                   file, headers, dataList, i, buf, res, ret, log, storeVars, oks,
                   created>>

\* case event, ok := <-watcher.Events, ok false: return
RecvEventsClosed ==
    /\ alive /\ hPc = "select" /\ events = <<>> /\ eventsClosed
    /\ hPc' = "returned"
    /\ UNCHANGED <<mainVars, exit, chanVars, ingestVars, log, stdout, storeVars, histVars>>

RecvErrorReturn ==
    /\ alive /\ hPc = "select" /\ errors # <<>>
    /\ errors' = Tail(errors)
    /\ log' = Append(log, Entry("watchError", 0))
    /\ hPc' = "returned"
    /\ UNCHANGED <<mainVars, exit, events, eventsClosed, errorsClosed, nEvents, nErrors,
                   ingestVars, stdout, storeVars, histVars>>

\* case err, ok := <-watcher.Errors, ok true: log.Println("Error:", err)
RecvError ==
    /\ alive /\ hPc = "select" /\ errors # <<>>
    /\ errors' = Tail(errors)
    /\ log' = Append(log, Entry("watchError", 0))
    /\ UNCHANGED <<mainVars, exit, hPc, events, eventsClosed, errorsClosed, nEvents,
                   nErrors, ingestVars, stdout, storeVars, histVars>>

\* case err, ok := <-watcher.Errors, ok false: return
RecvErrorsClosed ==
    /\ alive /\ hPc = "select" /\ errors = <<>> /\ errorsClosed
    /\ hPc' = "returned"
    /\ UNCHANGED <<mainVars, exit, chanVars, ingestVars, log, stdout, storeVars, histVars>>

\* ------------------------------------------------------ processGzipFile

\* os.Open, gzip.NewReader, reader.Read for the header, reader.ReadAll, the
\* mapping loops, the "length" log line and the call of
\* bulkInsertToElasticsearch, with f what the disk holds at event.Name when it
\* is opened
ProcessDecode(f) ==
    /\ alive /\ hPc = "process"
    /\ file' = f
    /\ IF ~f.opens \/ ~f.gzip
       THEN /\ Fatal
            /\ UNCHANGED <<hPc, headers, dataList, i, buf, res, ret>>
       ELSE LET hdr == ReadHeader(f)
                logged == Append(log, Entry("header", Len(hdr.row)))
            IN  /\ headers' = hdr.row
                /\ IF hdr.err # "nil"
                   THEN /\ log' = Append(logged, Entry("fatal", 0))
                        /\ exit' = "fatal"
                        /\ UNCHANGED <<hPc, dataList, i, buf, res, ret>>
                   ELSE LET mapped == MapRows(hdr.row, ReadAll(f).rows)
                        IN  IF mapped.panic
                            THEN /\ log' = logged
                                 /\ exit' = "panic"
                                 /\ UNCHANGED <<hPc, dataList, i, buf, res, ret>>
                            ELSE /\ dataList' = mapped.list
                                 /\ log' = Append(logged, Entry("length", Len(mapped.list)))
                                 /\ i' = 1 /\ buf' = <<>>
                                 /\ res' = NoRes /\ ret' = Nil
                                 /\ hPc' = "marshal"
                                 /\ UNCHANGED exit
    /\ UNCHANGED <<mainVars, chanVars, event, stdout, storeVars, histVars>>

\* -------------------------------------------- bulkInsertToElasticsearch

\* json.Marshal succeeded: the directive and the document are written to buf
\* and the loop goes on
MarshalOk ==
    /\ buf' = buf \o <<Meta(Index), Marshal(dataList[i]).data>>
    /\ i' = i + 1
    /\ UNCHANGED <<hPc, ret, active>>

MarshalFailIgnored ==
    /\ i' = i + 1
    /\ UNCHANGED <<hPc, ret, buf, active>>

\* json.Marshal failed: the function returns the error, and processGzipFile
\* returns to the select loop
MarshalFail ==
    /\ ret' = Err("marshal", <<>>)
    /\ hPc' = "select"
    /\ active' = active - 1
    /\ UNCHANGED <<i, buf>>

\* one round of the loop over dataList
BulkMarshal ==
    /\ alive /\ hPc = "marshal" /\ i <= Len(dataList)
    /\ log' = Append(log, Entry("dataMap", i))
    /\ IF Marshal(dataList[i]).err = "nil" THEN MarshalOk ELSE MarshalFail
    /\ UNCHANGED <<mainVars, exit, chanVars, event, file, headers, dataList, res,
                   stdout, storeVars, ingests, oks, created>>

\* req.Do(context.Background(), es) is called with the whole buffer and
\* Refresh "true"; a nil client panics on its first use
BulkDo ==
    /\ alive /\ hPc = "marshal" /\ i > Len(dataList)
    /\ IF es = "nil"
       THEN /\ exit' = "panic"
            /\ UNCHANGED <<hPc, requests>>
       ELSE /\ requests' = Append(requests, [body |-> buf, refresh |-> "true"])
            /\ hPc' = "do"
            /\ UNCHANGED exit
    /\ UNCHANGED <<mainVars, chanVars, ingestVars, log, stdout, store, nextId, histVars>>

DoTransportErrorFatal ==
    /\ alive /\ hPc = "do"
    /\ res' = NoRes
    /\ ret' = Err("transport", <<>>)
    /\ Fatal
    /\ UNCHANGED <<mainVars, hPc, chanVars, event, file, headers, dataList, i, buf,
                   stdout, storeVars, histVars>>

\* req.Do returns an error: "failure indexing batch" is returned
DoTransportError ==
    /\ alive /\ hPc = "do"
    /\ res' = NoRes
    /\ ret' = Err("transport", <<>>)
    /\ hPc' = "select"
    /\ active' = active - 1
    /\ UNCHANGED <<mainVars, exit, chanVars, event, file, headers, dataList, i, buf, log,
                   stdout, storeVars, ingests, oks, created>>

ErrorResponseSwallowed(body) ==
    /\ res' = [status |-> "error", body |-> body]
    /\ ret' = Nil
    /\ log' = Append(log, Entry("success", Len(dataList)))

\* res.IsError(): the body is decoded and returned in the error, or the
\* decoding error is returned
ErrorResponse(body) ==
    /\ res' = [status |-> "error", body |-> body]
    /\ ret' = IF Decode(body).err # "nil" THEN Err("parse", <<>>)
              ELSE Err("indexing", Decode(body).value)
    /\ UNCHANGED log

\* req.Do returns a response whose status is an error
DoErrorResponse ==
    /\ alive /\ hPc = "do"
    /\ \E body \in Bodies : ErrorResponse(body)
    /\ hPc' = "select"
    /\ active' = active - 1
    /\ UNCHANGED <<mainVars, exit, chanVars, event, file, headers, dataList, i, buf,
                   stdout, storeVars, ingests, oks, created>>

DoSuccessMiscount ==
    /\ alive /\ hPc = "do"
    /\ res' = [status |-> "ok", body |-> <<"{", "}">>]
    /\ LET applied == ApplyBulk(buf, 1, store, nextId)
       IN  store' = applied.docs /\ nextId' = applied.next
    /\ log' = Append(log, Entry("success", Len(buf)))
    /\ ret' = Nil
    /\ oks' = Append(oks, [name |-> event.Name, file |-> file])
    /\ hPc' = "select"
    /\ active' = active - 1
    /\ UNCHANGED <<mainVars, exit, chanVars, event, file, headers, dataList, i, buf,
                   stdout, requests, ingests, created>>

\* req.Do returns a response whose status is no error: the datastore has
\* applied the body, the success line is logged and nil is returned
DoSuccess ==
    /\ alive /\ hPc = "do"
    /\ res' = [status |-> "ok", body |-> <<"{", "}">>]
    /\ LET applied == ApplyBulk(buf, 1, store, nextId)
       IN  store' = applied.docs /\ nextId' = applied.next
    /\ log' = Append(log, Entry("success", Len(dataList)))
    /\ ret' = Nil
    /\ oks' = Append(oks, [name |-> event.Name, file |-> file])
    /\ hPc' = "select"
    /\ active' = active - 1
    /\ UNCHANGED <<mainVars, exit, chanVars, event, file, headers, dataList, i, buf,
                   stdout, requests, ingests, created>>

\* ------------------------------------------------------- specifications

Main     == LoadEnv \/ NewClient \/ NewWatcher \/ Go \/ Add
Facility == DeliverEvent \/ DeliverError \/ CloseEvents \/ CloseErrors
Loop     == RecvEvent \/ RecvEventsClosed \/ RecvError \/ RecvErrorsClosed
Bulk     == BulkMarshal \/ BulkDo
              \/ DoTransportError \/ DoErrorResponse \/ DoSuccess

Next == Main \/ Facility \/ Loop \/ (\E f \in SampleFiles : ProcessDecode(f)) \/ Bulk

Spec == Init /\ [][Next]_vars

\* the same program under a scheduler that keeps running the goroutine of
\* the select loop while it can take a step, and a datastore client whose
\* Do call comes back (with a response or with an error)
SpecFair ==
    /\ Spec
    /\ WF_vars(Loop)
    /\ WF_vars(\E f \in SampleFiles : ProcessDecode(f))
    /\ WF_vars(Bulk)

\* processGzipFile on its own: the handler has just received a Create event
\* for a.gz, and file is what the disk holds there, any file within the bounds
GzCreated == [Name |-> <<"a", ".", "g", "z">>, Op |-> Create]

InitDecode ==
    /\ mainPc = "block" /\ mainErr = "nil" /\ es = "client" /\ watching = TRUE
    /\ exit = "running"
    /\ hPc = "process"
    /\ events = <<>> /\ errors = <<>>
    /\ eventsClosed = FALSE /\ errorsClosed = FALSE
    /\ nEvents = 1 /\ nErrors = 0
    /\ event = GzCreated /\ file \in AllFiles /\ headers = <<>> /\ dataList = <<>>
    /\ i = 0 /\ buf = <<>> /\ res = NoRes /\ ret = Nil
    /\ log = <<>> /\ stdout = <<GzCreated.Name>>
    /\ requests = <<>> /\ store = {} /\ nextId = 1
    /\ ingests = <<GzCreated>> /\ oks = <<>> /\ active = 1 /\ created = <<GzCreated>>

NextDecode == ProcessDecode(file)

SpecDecode == InitDecode /\ [][NextDecode]_vars

\* bulkInsertToElasticsearch on its own: called with any batch within the
\* bounds, whose values may be of a type json.Marshal rejects
RecordSet == UNION { [K -> Cells \cup {Chan}] : K \in SUBSET HeaderNames \ {{}} }
BatchSet  == SeqsUpTo(RecordSet, 0, MaxRows)

InitBulk ==
    /\ mainPc = "block" /\ mainErr = "nil" /\ es = "client" /\ watching = TRUE
    /\ exit = "running"
    /\ hPc = "marshal"
    /\ events = <<>> /\ errors = <<>>
    /\ eventsClosed = FALSE /\ errorsClosed = FALSE
    /\ nEvents = 1 /\ nErrors = 0
    /\ event = GzCreated /\ file = NoFile /\ headers = <<>>
    /\ dataList \in BatchSet
    /\ i = 1 /\ buf = <<>> /\ res = NoRes /\ ret = Nil
    /\ log = <<>> /\ stdout = <<GzCreated.Name>>
    /\ requests = <<>> /\ store = {} /\ nextId = 1
    /\ ingests = <<GzCreated>> /\ oks = <<>> /\ active = 1 /\ created = <<GzCreated>>

NextBulk == Bulk

SpecBulk == InitBulk /\ [][NextBulk]_vars

\* ----------------------------------------------------------------- claims

Ingesting == hPc \in {"process", "marshal", "do"}

HasEntry(kind) == \E k \in DOMAIN log : log[k].kind = kind

\* C1: processGzipFile is never invoked for an event whose file name does not
\* end with ".gz": every invocation so far, and the one in progress, is for
\* an event whose name ends with ".gz".
C1_SuffixFiltering ==
    /\ \A k \in DOMAIN ingests : EndsInGz(ingests[k].Name)
    /\ Ingesting => EndsInGz(event.Name)

\* C1 witness: the loop has received a Create event for a name without the
\* suffix and is back at the select with no ingestion made.
C1_Witness ==
    /\ hPc = "select" /\ event.Op = Create /\ ~EndsInGz(event.Name)
    /\ event.Name # <<>> /\ ingests = <<>> /\ events = <<>>

Decoded == hPc = "marshal" /\ alive

DataRow(r) == file.recs[r + 1]

LastIndex(hs, h) ==
    CHOOSE j \in 1..Len(hs) : hs[j] = h /\ \A k \in (j + 1)..Len(hs) : hs[k] # h

\* C2 as stated: the Record of every data row maps each header name to the
\* cell at the same position, and has no other keys.
C2_Original ==
    Decoded =>
        \A r \in DOMAIN dataList :
            /\ DOMAIN dataList[r] = { headers[j] : j \in DOMAIN headers }
            /\ \A j \in DOMAIN headers : dataList[r][headers[j]] = DataRow(r)[j]

\* C2 amended: the Record's key set is the set of header names, and each
\* name maps to the cell at the last position that carries this name (so to
\* the cell at the same position when the header names are distinct).
C2_HeaderFraming ==
    Decoded =>
        \A r \in DOMAIN dataList :
            /\ DOMAIN dataList[r] = { headers[j] : j \in DOMAIN headers }
            /\ \A j \in DOMAIN headers :
                   dataList[r][headers[j]] = DataRow(r)[LastIndex(headers, headers[j])]

\* C2 witness: a decoded file with a repeated header name whose row has
\* different cells in the two columns.
C2_Witness ==
    /\ Decoded /\ Len(dataList) >= 1 /\ Len(headers) = 2
    /\ headers[1] = headers[2] /\ DataRow(1)[1] # DataRow(1)[2]

WellFormed(f) ==
    /\ f.opens /\ f.gzip /\ ~f.corrupt /\ f.recs # <<>>
    /\ \A k \in DOMAIN f.recs : Len(f.recs[k]) = Len(f.recs[1])

\* C3: for a well-formed file the batch handed to the indexer has one Record
\* per data row, and the Record at position r is the one of data row r.
C3_RowCount ==
    (hPc # "process" /\ WellFormed(file)) =>
        /\ Decoded
        /\ Len(dataList) = Len(file.recs) - 1
        /\ \A r \in DOMAIN dataList :
               \A j \in DOMAIN headers :
                   dataList[r][headers[j]] = DataRow(r)[LastIndex(headers, headers[j])]

\* C3 witness: a well-formed file with two different data rows was decoded.
C3_Witness ==
    /\ Decoded /\ WellFormed(file) /\ Len(dataList) = 2
    /\ DataRow(1) # DataRow(2) /\ dataList[1] # dataList[2]

Unserializable(rec) == \E k \in DOMAIN rec : rec[k] \notin Cells

\* C4: a batch with a Record that cannot be serialized never issues a bulk
\* request and puts no document in the datastore, and the call ends with
\* the serialization error.
C4_BatchAtomicity ==
    (\E r \in DOMAIN dataList : Unserializable(dataList[r])) =>
        /\ requests = <<>> /\ store = {} /\ hPc # "do"
        /\ hPc = "select" => ret.kind = "marshal"

\* C4 witness: the call returned the serialization error after it had
\* serialized an earlier Record of the batch.
C4_Witness ==
    /\ hPc = "select" /\ ret.kind = "marshal" /\ i > 1 /\ buf # <<>>
    /\ requests = <<>>

\* the data rows of the well-formed files among the successful ingestions
RECURSIVE RowsOf(_, _)
RowsOf(done, k) ==
    IF k > Len(done) THEN 0
    ELSE (IF WellFormed(done[k].file) THEN Len(done[k].file.recs) - 1 ELSE 0)
         + RowsOf(done, k + 1)

\* C5: the datastore holds one document per data row per successful
\* ingestion of a well-formed file (k ingestions of one file give
\* k x rowCount documents), each under an identifier of its own.
C5_NoDeduplication ==
    /\ Cardinality(store) = RowsOf(oks, 1)
    /\ Cardinality(store) = nextId - 1

\* C5 witness: one file with rows was ingested successfully twice and the
\* datastore holds twice its rows.
C5_Witness ==
    /\ Len(oks) = 2 /\ oks[1] = oks[2] /\ WellFormed(oks[1].file)
    /\ Len(oks[1].file.recs) = 3
    /\ Cardinality(store) = 4

SuccessEntries == Cardinality({ k \in DOMAIN log : log[k].kind = "success" })

\* C6 as stated: an error response always gives an error that carries the
\* decoded response body.
C6_Original ==
    res.status = "error" =>
        /\ ret.kind = "indexing"
        /\ Decode(res.body).err = "nil" /\ ret.detail = Decode(res.body).value

\* C6 amended: an error response gives an error: the one that carries the
\* decoded body when the body decodes, the decoding error otherwise; and no
\* success is reported but for responses without the error indicator.
C6_ErrorSurfacing ==
    /\ res.status = "error" =>
           /\ ret # Nil
           /\ Decode(res.body).err = "nil" =>
                  ret = Err("indexing", Decode(res.body).value)
           /\ Decode(res.body).err # "nil" => ret.kind = "parse"
    /\ SuccessEntries = Len(oks)

\* C6 witness: an error response with a decodable body was returned as the
\* indexing error carrying it.
C6_Witness ==
    /\ hPc = "select" /\ res.status = "error"
    /\ ret = Err("indexing", <<"error">>)

\* C7: when the handler is back at the select after a failed submission,
\* the log holds an error entry for it.
C7_ErrorsLogged ==
    (hPc = "select" /\ ret # Nil) => HasEntry("bulkError")

ClientFailed ==
    es = "nil" /\ mainPc \notin {"loadEnv", "newClient"} /\ mainErr # "env"

\* C8: when the client could not be constructed the process has terminated,
\* the watch loop was never started and no ingestion was attempted.
C8_ClientFatal ==
    ClientFailed => ~alive /\ hPc = "idle" /\ ingests = <<>>

\* C9: when registering the directory failed the process has terminated by
\* log.Fatal and no ingestion was invoked.
C9_AddFatal ==
    mainErr = "add" => exit = "fatal" /\ ingests = <<>> /\ requests = <<>>

\* C9 witness: the registration failed after the event-handling goroutine
\* had started and handled a watcher error.
C9_Witness ==
    mainErr = "add" /\ hPc = "select" /\ HasEntry("watchError") /\ ~alive

ErrorReceived == Len(errors') < Len(errors)
LoopExits == hPc # "returned" /\ hPc' = "returned"

\* C10 as stated: a received error is logged and the loop goes on, and the
\* loop exits only when the event channel is closed.
C10_Original ==
    [][ /\ ErrorReceived =>
            hPc' = "select" /\ log' = Append(log, Entry("watchError", 0))
        /\ LoopExits => eventsClosed ]_vars

\* C10 amended: a received error is logged and the loop goes on, and the
\* loop exits only when the event channel or the error channel is closed
\* (and drained).
C10_WatcherErrors ==
    [][ /\ ErrorReceived =>
            hPc' = "select" /\ log' = Append(log, Entry("watchError", 0))
        /\ LoopExits => \/ eventsClosed /\ events = <<>>
                        \/ errorsClosed /\ errors = <<>> ]_vars

\* C10 witness: a file was ingested after a watcher error had been logged.
C10_Witness ==
    \E k, l \in DOMAIN log :
        k < l /\ log[k].kind = "watchError" /\ log[l].kind = "success"

\* C11: in every reachable state at most one invocation of processGzipFile
\* is in progress, and the handler takes an event from the channel only when
\* none is.
C11_SerialIngestion ==
    /\ active \in {0, 1}
    /\ active = 1 <=> Ingesting

\* C11 witness: a second creation event for the path being ingested waits
\* in the channel while the bulk request of the first is in flight.
C11_Witness ==
    /\ active = 1 /\ hPc = "do" /\ alive
    /\ events # <<>> /\ Head(events) = event /\ CreatedGz(event)

\* the creations of *.gz files that wait in the event channel
Pending == SelectSeq(events, CreatedGz)

\* the invocations of processGzipFile so far, followed by the waiting
\* creations of *.gz files, are the delivered ones, in the order delivered
DispatchedInOrder == ingests \o Pending = created

PastHeader == Cardinality({ k \in DOMAIN log : log[k].kind = "length" })

\* C13: every ingestion that gets past the decoding of the header issues
\* exactly one bulk request, with refresh requested, whose body is, for each
\* Record of the file in order, a create directive for twamp-data followed
\* by the serialized Record; no request carries Records of another file.
C13_OneRequestPerFile ==
    /\ Len(requests) <= PastHeader
    /\ (hPc # "marshal" \/ ~alive) => Len(requests) = PastHeader
    /\ hPc = "do" =>
           LET rq == requests[Len(requests)]
           IN  /\ rq.refresh = "true"
               /\ Len(rq.body) = 2 * Len(dataList)
               /\ \A r \in DOMAIN dataList :
                      /\ rq.body[2 * r - 1] = [op |-> "create", index |-> "twamp-data", id |-> NoId]
                      /\ rq.body[2 * r] = Marshal(dataList[r]).data

\* bulkInsertToElasticsearch comes back with an error
SubmitFails == hPc \in {"marshal", "do"} /\ ret' # Nil

\* C14: when bulkInsertToElasticsearch returns an error the process keeps
\* running, the loop is back at its select with the waiting events
\* untouched, nothing is sent again for the file, and there are never more
\* bulk requests than dispatched creation events.
C14_FailureIsLocal ==
    /\ [][ SubmitFails =>
             /\ exit' = "running" /\ mainPc' = mainPc /\ hPc' = "select"
             /\ events' = events /\ eventsClosed' = eventsClosed
             /\ requests' = requests /\ store' = store
             /\ ingests' = ingests /\ active' = 0 ]_vars
    /\ [](Len(requests) <= Len(ingests))

\* C14 witness: after a submission that failed in transport, the next
\* creation event was ingested and its batch accepted.
C14_Witness ==
    /\ alive /\ hPc = "select" /\ Len(ingests) = 2 /\ Len(requests) = 2
    /\ Len(oks) = 1 /\ ret = Nil /\ res.status = "ok"
    /\ SuccessEntries = 1

\* processGzipFile runs its decoding part
DecodeStep == alive /\ hPc = "process" /\ log' # log

\* the file cannot be opened, is no gzip stream, or has no header row
NoHeader(f) == ~f.opens \/ ~f.gzip \/ f.recs = <<>>

\* C15: an ingestion whose file cannot be opened, is no gzip stream or has
\* no header row ends the process in that ingestion, without a bulk request
\* for the file; and a terminated process takes no step, so no later event
\* is handled.
C15_DecodeFatal ==
    /\ [][ (DecodeStep /\ NoHeader(file')) =>
             /\ exit' = "fatal" /\ hPc' = "process"
             /\ requests' = requests /\ store' = store ]_vars
    /\ [][ exit = "running" ]_vars

\* C15 witness: the process ended in the ingestion of a gzip file without a
\* header row, after an earlier file had been submitted, and no bulk
\* request was made for it.
C15_Witness ==
    /\ exit = "fatal" /\ hPc = "process"
    /\ file.opens /\ file.gzip /\ file.recs = <<>>
    /\ Len(ingests) = 2 /\ Len(requests) = 1
    /\ log[Len(log)].kind = "fatal"

\* a file with a header row and a data row that has fewer cells than it
HasShortRow(f) ==
    /\ f.opens /\ f.gzip /\ f.recs # <<>>
    /\ \E k \in 2..Len(f.recs) : Len(f.recs[k]) < Len(f.recs[1])

\* the decoding part of processGzipFile is over
DecodeOver == hPc # "process" \/ ~alive

\* C16 as stated: a data row with fewer cells than the header makes the
\* mapping loop index past the end of the row, and the ingestion crashes.
C16_Original ==
    (DecodeOver /\ HasShortRow(file)) => exit = "panic"

\* C16 amended: a data row with fewer cells than the header makes ReadAll
\* fail on the field count; the error is dropped with every row, so the
\* mapping loop runs over no row at all: nothing is indexed out of range,
\* the process keeps running, and the batch handed on is empty.
C16_RowArity ==
    (DecodeOver /\ HasShortRow(file)) =>
        /\ alive /\ hPc = "marshal"
        /\ dataList = <<>>
        /\ log[Len(log)] = Entry("length", 0)

\* C16 witness: a file whose first data row fits the header and whose
\* second is shorter was decoded into an empty batch.
C16_Witness ==
    /\ Decoded /\ HasShortRow(file) /\ Len(file.recs) = 3
    /\ Len(file.recs[2]) = Len(file.recs[1]) /\ ~file.corrupt
    /\ dataList = <<>>

\* the step writes the success line to the log
Reported == Len(log') = Len(log) + 1 /\ log'[Len(log')].kind = "success"

\* req.Do comes back with a response whose error indicator is not set
Accepted == hPc = "do" /\ hPc' # "do" /\ res' # NoRes /\ res'.status # "error"

\* C17: the success line is logged exactly when req.Do came back without a
\* transport error and with a response that is no error; its count is the
\* number of Records of the batch that was sent, and the call returns nil.
C17_SuccessReport ==
    [][ /\ Reported <=> Accepted
        /\ Reported =>
             /\ log'[Len(log')].n = Len(dataList)
             /\ 2 * log'[Len(log')].n = Len(requests[Len(requests)].body)
             /\ ret' = Nil /\ hPc' = "select" ]_vars

\* C17 witness: the success line of a batch of two Records is the last log
\* entry, after the submission of an earlier batch had failed.
C17_Witness ==
    /\ hPc = "select" /\ ret = Nil /\ res.status = "ok"
    /\ log[Len(log)] = Entry("success", 2)
    /\ Len(requests) = 2 /\ SuccessEntries = 1

\* a file with a header row whose data rows cannot all be read: a row of
\* another arity than the header, or a stream that is corrupt after the
\* rows that could be read
ReadFails(f) ==
    /\ f.opens /\ f.gzip /\ f.recs # <<>>
    /\ \/ f.corrupt
       \/ \E k \in 2..Len(f.recs) : Len(f.recs[k]) # Len(f.recs[1])

\* the ingestion is past the decoding, in bulkInsertToElasticsearch
Submitting == hPc \in {"marshal", "do"}

\* C18: the batch of a file has a Record for every data row or none, never
\* a proper non-empty prefix; when the reading of the data rows fails, the
\* batch is empty, nothing is logged about it, the process keeps running and
\* the bulk request sent for the file has an empty body.
C18_AllOrNothing ==
    /\ Submitting => Len(dataList) \in {0, Len(file.recs) - 1}
    /\ (Submitting /\ ReadFails(file)) =>
           /\ dataList = <<>>
           /\ alive
           /\ log[Len(log)] = Entry("length", 0)
    /\ (hPc = "do" /\ ReadFails(file)) => requests[Len(requests)].body = <<>>

====
